---- MODULE Spec2Model ----
(***************************************************************************)
(* The rendezvous coordinator of proxy/coordinator.go.                     *)
(*                                                                         *)
(* Every call of DoScrape, WaitForScrapeInstruction and ScrapeResult is a  *)
(* goroutine with its own position (spc, cpc, rpc) and locals.  Channels   *)
(* are heap objects named by numbers; requests and responses are pointers, *)
(* named by the call that owns the object.  A communication on an          *)
(* unbuffered channel is one step in which sender and receiver move        *)
(* together; a select takes any case that is ready.                        *)
(*                                                                         *)
(* Steps that no other goroutine can tell apart are taken together: the    *)
(* statements of a call up to its first channel operation (genId and the   *)
(* header change with getRequestChannel; addKnownClient with               *)
(* getRequestChannel; the header changes of ScrapeResult with              *)
(* getResponseChannel), and a select that takes ctx.Done() with the        *)
(* removeResponseChannel that follows it.  The end of a context is an      *)
(* event of the environment (CtxEnd); the end of the timeout context of    *)
(* ScrapeResult is taken together with the select case that observes it.   *)
(* The request passed to DoScrape carries the context passed to DoScrape,  *)
(* as the HTTP handler builds them.                                        *)
(*                                                                         *)
(* Agents submit results only for identifiers of requests that             *)
(* WaitForScrapeInstruction returned to them, or for an identifier this    *)
(* process never issued.                                                   *)
(*                                                                         *)
(* Spec is the coordinator with all its handlers.  FairSpec adds what the  *)
(* Go scheduler guarantees.  GoneSpec adds agents that disconnect while    *)
(* their poll is in progress.  RegSpec adds the clock, KnownClients and    *)
(* the sweeps of gc.  LockSpec is the lock-level view: what each handler   *)
(* does to the mutex c.mu and where it blocks on a channel.                *)
(***************************************************************************)
EXTENDS Integers, FiniteSets, Sequences, TLC

\* ---------------------------------------------------------------- bounds
NumTargets == 2     \* distinct hostnames used by callers and agents
MaxScrapes == 2     \* DoScrape calls
MaxClaims  == 2     \* WaitForScrapeInstruction calls
MaxResults == 2     \* ScrapeResult calls
MaxTime == 7        \* minutes the clock runs in the registry view
MaxGoroutines == 3  \* handler goroutines in the lock-level view

Targets == 1..NumTargets
Scrapes == 1..MaxScrapes
Claims  == 1..MaxClaims
Results == 1..MaxResults
Goroutines == 1..MaxGoroutines

\* os.Getpid() of the one running process
Pid == 7

NoChan == 0
\* Names for the channels: more than the calls can make
ChanIds == 1..(NumTargets + 2 * MaxScrapes + MaxClaims + 2 * MaxResults)
NoId == <<>>
NoCall == 0
NoTime == -1
\* agentGone of an agent that is still connected
NotGone == {NoCall}

\* Header names of net/http used by the coordinator
HId == "Id"
HTimeout == "X-Prometheus-Scrape-Timeout-Seconds"
HOther == "Content-Type"

VARIABLES
    idCounter,   \* var idCounter int64
    waiting,     \* Coordinator.waiting : fqdn -> request channel
    responses,   \* Coordinator.responses : id -> response channel
    known,       \* Coordinator.known : fqdn -> last contact
    now,         \* time.Now().Unix()
    ctxDone,     \* ctxDone[p] : the context of DoScrape call p has ended
    spc,         \* position of DoScrape call p
    shost,       \* r.URL.Hostname() of call p
    sid,         \* local id of call p
    reqHdr,      \* header of the request object of call p
    sch,         \* request channel call p sends on (select at line 87)
    respCh,      \* local respCh of call p
    sres,        \* what call p returns: error kind, or "resp"
    sgot,        \* the response object call p returns
    cpc,         \* position of WaitForScrapeInstruction call a
    cfqdn,       \* fqdn of call a
    cch,         \* local ch of call a
    creq,        \* local request of call a (a request object)
    rpc,         \* position of ScrapeResult call s
    rid,         \* local id of call s
    respHdr,     \* header of the response object of call s
    rch,         \* response channel call s sends on (select at line 129)
    rres,        \* what call s returns
    \* history, read by the properties only
    handedTo,    \* handedTo[p] : the claim calls that received p's request, in order
    received,    \* received[p] : the response objects call p received, in order
    removals,    \* removals[p] : removeResponseChannel calls made by call p
    rremovals,   \* rremovals[s] : removeResponseChannel calls made by call s
    noWaiter,    \* noWaiter[s] : no DoScrape call was waiting, or about to wait, on rid[s] at the call
    doneAtCall,  \* doneAtCall[p] : ctx had already ended when DoScrape was called
    liveAtReturn,\* liveAtReturn[a] : the returned request's ctx had not ended at return
    contact,     \* contact[f] : time of the last addKnownClient(f), NoTime before the first
    \* environment and scheduling
    agentGone,   \* agentGone[a] : idCounter when the agent of call a disconnected, NotGone before
    lastSweep,   \* time of the last tick of gc's ticker (start of the process at first)
    sweeps,      \* gc has run at least once
    alive,       \* what the last KnownClients call returned
    mu,          \* mu[l] : the goroutine holding mutex l, or NoCall
    lkind,       \* lkind[g] : the handler goroutine g runs (lock-level view)
    lstep        \* lstep[g] : the operation of that handler g is at

vars == <<idCounter, waiting, responses, known, now, ctxDone, spc, shost, sid,
          reqHdr, sch, respCh, sres, sgot, cpc, cfqdn, cch, creq, rpc, rid,
          respHdr, rch, rres, handedTo, received, removals,
          rremovals, noWaiter, doneAtCall, liveAtReturn, contact, agentGone,
          lastSweep, sweeps, alive, mu, lkind, lstep>>

coordVars == <<idCounter, waiting, responses, known>>
scrapeVars == <<spc, shost, sid, reqHdr, sch, respCh, sres, sgot>>
claimVars == <<cpc, cfqdn, cch, creq>>
resultVars == <<rpc, rid, respHdr, rch, rres>>
histVars == <<handedTo, received, removals, rremovals, noWaiter, doneAtCall, liveAtReturn>>
regVars == <<lastSweep, sweeps, alive>>
lockVars == <<mu, lkind, lstep>>
envVars == <<now, contact, agentGone, regVars, lockVars>>

\* ------------------------------------------------------------ net/http.Header
\* A header is a set of <<name, value>> pairs.
HeaderGet(h, name) ==
    IF \E kv \in h : kv[1] = name
    THEN (CHOOSE kv \in h : kv[1] = name)[2]
    ELSE NoId

HeaderDel(h, name) == {kv \in h : kv[1] # name}

HeaderAdd(h, name, value) == h \cup {<<name, value>>}

HeaderHas(h, name) == \E kv \in h : kv[1] = name

\* ------------------------------------------------------------ channels
Range(f) == {f[x] : x \in DOMAIN f}

UsedChans ==
    (Range(waiting) \cup Range(responses) \cup Range(sch) \cup Range(respCh)
       \cup Range(cch) \cup Range(rch)) \ {NoChan}

\* make(chan ...): an object distinct from every channel still referenced
MakeChan == CHOOSE c \in ChanIds : c \notin UsedChans /\ \A d \in ChanIds : d < c => d \in UsedChans

\* ------------------------------------------------------------ coordinator
\* Strings are sequences of characters.  Itoa is the %d of fmt.Sprintf.
DigitChars == <<"0", "1", "2", "3", "4", "5", "6", "7", "8", "9">>

RECURSIVE Itoa(_)
Itoa(n) ==
    IF n < 10
    THEN <<DigitChars[n + 1]>>
    ELSE Append(Itoa(n \div 10), DigitChars[(n % 10) + 1])

\* Mutant: the identifier is built from the time and the pid only.
genIdNoCounter(counter, t) == Itoa(t) \o <<"-">> \o Itoa(0) \o <<"-">> \o Itoa(Pid)

\* lines 47-50: fmt.Sprintf("%d-%d-%d", time.Now().Unix(), id, os.Getpid()),
\* with id the value atomic.AddInt64(&idCounter, 1) returned
genId(counter, t) == Itoa(t) \o <<"-">> \o Itoa(counter) \o <<"-">> \o Itoa(Pid)

\* An identifier genId never returns in this process (the counter starts at 1).
GhostId == genId(0, 0)

\* Mutant: one channel serves every hostname.
getRequestChannelShared(fqdn) ==
    IF DOMAIN waiting # {}
    THEN [ch |-> waiting[CHOOSE f \in DOMAIN waiting : TRUE],
          map |-> (fqdn :> waiting[CHOOSE f \in DOMAIN waiting : TRUE]) @@ waiting]
    ELSE [ch |-> MakeChan, map |-> (fqdn :> MakeChan) @@ waiting]

\* Mutant: the lookup is lost and every call makes a channel of its own.
getRequestChannelFresh(fqdn) ==
    [ch |-> MakeChan, map |-> (fqdn :> MakeChan) @@ waiting]

\* getRequestChannel: the channel returned and the map afterwards
getRequestChannel(fqdn) ==
    IF fqdn \in DOMAIN waiting
    THEN [ch |-> waiting[fqdn], map |-> waiting]
    ELSE [ch |-> MakeChan, map |-> (fqdn :> MakeChan) @@ waiting]

\* Mutant: one channel serves every identifier.
getResponseChannelShared(id) ==
    IF DOMAIN responses # {}
    THEN [ch |-> responses[CHOOSE i \in DOMAIN responses : TRUE],
          map |-> (id :> responses[CHOOSE i \in DOMAIN responses : TRUE]) @@ responses]
    ELSE [ch |-> MakeChan, map |-> (id :> MakeChan) @@ responses]

\* getResponseChannel: the channel returned and the map afterwards
getResponseChannel(id) ==
    IF id \in DOMAIN responses
    THEN [ch |-> responses[id], map |-> responses]
    ELSE [ch |-> MakeChan, map |-> (id :> MakeChan) @@ responses]

\* map[...]...{} of NewCoordinator
EmptyMap == [x \in {} |-> NoChan]

\* Mutant: the removal clears the whole table.
removeResponseChannelAll(id) == EmptyMap

removeResponseChannel(id) ==
    [i \in DOMAIN responses \ {id} |-> responses[i]]

\* Mutant: the contact is not recorded.
addKnownClientNoop(fqdn) == known

\* addKnownClient: the registry afterwards
addKnownClient(fqdn) == (fqdn :> now) @@ known

\* ------------------------------------------------------------ the mutex
\* The maps of the Coordinator and the operations that touch them.
Maps == {"waiting", "responses", "known"}

MapOf(op) ==
    CASE op = "getRequestChannel" -> "waiting"
      [] op = "getResponseChannel" -> "responses"
      [] op = "removeResponseChannel" -> "responses"
      [] op = "addKnownClient" -> "known"
      [] op = "KnownClients" -> "known"
      [] op = "gc" -> "known"

\* The mutex an operation on map m takes: c.mu in every one of them
\* (lines 54, 65, 77, 139, 147, 164).
LockOf(m) == "mu"

Locks == {LockOf(m) : m \in Maps}

Init ==
    /\ idCounter = 0
    /\ waiting = EmptyMap
    /\ responses = EmptyMap
    /\ known = EmptyMap
    /\ now = 0
    /\ ctxDone = [p \in Scrapes |-> FALSE]
    /\ spc = [p \in Scrapes |-> "idle"]
    /\ shost = [p \in Scrapes |-> 0]
    /\ sid = [p \in Scrapes |-> NoId]
    /\ reqHdr = [p \in Scrapes |-> {}]
    /\ sch = [p \in Scrapes |-> NoChan]
    /\ respCh = [p \in Scrapes |-> NoChan]
    /\ sres = [p \in Scrapes |-> "none"]
    /\ sgot = [p \in Scrapes |-> NoCall]
    /\ cpc = [a \in Claims |-> "idle"]
    /\ cfqdn = [a \in Claims |-> 0]
    /\ cch = [a \in Claims |-> NoChan]
    /\ creq = [a \in Claims |-> NoCall]
    /\ rpc = [s \in Results |-> "idle"]
    /\ rid = [s \in Results |-> NoId]
    /\ respHdr = [s \in Results |-> {}]
    /\ rch = [s \in Results |-> NoChan]
    /\ rres = [s \in Results |-> "none"]
    /\ handedTo = [p \in Scrapes |-> <<>>]
    /\ received = [p \in Scrapes |-> <<>>]
    /\ removals = [p \in Scrapes |-> 0]
    /\ rremovals = [s \in Results |-> 0]
    /\ noWaiter = [s \in Results |-> FALSE]
    /\ doneAtCall = [p \in Scrapes |-> FALSE]
    /\ liveAtReturn = [a \in Claims |-> TRUE]
    /\ contact = [f \in Targets |-> NoTime]
    /\ agentGone = [a \in Claims |-> NotGone]
    /\ lastSweep = 0
    /\ sweeps = FALSE
    /\ alive = {}
    /\ mu = [l \in Locks |-> NoCall]
    /\ lkind = [g \in Goroutines |-> "idle"]
    /\ lstep = [g \in Goroutines |-> 0]

\* ------------------------------------------------------------ environment
\* The caller's context ends (cancel or deadline); it may do so before the call.
CtxEnd(p) ==
    /\ spc[p] \in {"idle", "handoff", "handed", "await"}
    /\ ~ctxDone[p]
    /\ ctxDone' = [ctxDone EXCEPT ![p] = TRUE]
    /\ UNCHANGED <<coordVars, envVars, scrapeVars, claimVars, resultVars, histVars>>

\* ------------------------------------------------------------ DoScrape
\* Calls are numbered in the order they start.
Started(pcs, i) == IF i = 1 THEN TRUE ELSE pcs[i - 1] # "idle"

\* Hostnames are numbered in the order they are first used.
UsedTargets == {shost[p] : p \in Scrapes} \cup {cfqdn[a] : a \in Claims}

FreshOrUsed(t) == t = 1 \/ (t - 1) \in UsedTargets

\* lines 84-90: id := genId(); r.Header.Add("Id", id); entering the select
\* evaluates c.getRequestChannel(r.URL.Hostname())
DoScrapeBegin(p, t) ==
    /\ spc[p] = "idle"
    /\ Started(spc, p)
    /\ FreshOrUsed(t)
    /\ idCounter' = idCounter + 1
    /\ sid' = [sid EXCEPT ![p] = genId(idCounter + 1, now)]
    /\ reqHdr' = [reqHdr EXCEPT ![p] = HeaderAdd({}, HId, genId(idCounter + 1, now))]
    /\ shost' = [shost EXCEPT ![p] = t]
    /\ sch' = [sch EXCEPT ![p] = getRequestChannel(t).ch]
    /\ waiting' = getRequestChannel(t).map
    /\ spc' = [spc EXCEPT ![p] = "handoff"]
    /\ doneAtCall' = [doneAtCall EXCEPT ![p] = ctxDone[p]]
    /\ UNCHANGED <<responses, known, envVars, ctxDone, respCh, sres, sgot,
                   claimVars, resultVars,
                   handedTo, received, removals, rremovals, noWaiter, liveAtReturn>>

\* Mutant: the call gives up without waiting for its context to end.
DoScrapeNoMatchEarly(p) ==
    /\ spc[p] = "handoff"
    /\ spc' = [spc EXCEPT ![p] = "done"]
    /\ sres' = [sres EXCEPT ![p] = "NoMatchingAgent"]
    /\ sch' = [sch EXCEPT ![p] = NoChan]
    /\ UNCHANGED <<coordVars, envVars, ctxDone, shost, sid, reqHdr, respCh, sgot,
                   claimVars, resultVars, histVars>>

\* lines 88-89: case <-ctx.Done()
DoScrapeNoMatch(p) ==
    /\ spc[p] = "handoff"
    /\ ctxDone[p]
    /\ spc' = [spc EXCEPT ![p] = "done"]
    /\ sres' = [sres EXCEPT ![p] = "NoMatchingAgent"]
    /\ sch' = [sch EXCEPT ![p] = NoChan]
    /\ UNCHANGED <<coordVars, envVars, ctxDone, shost, sid, reqHdr, respCh, sgot,
                   claimVars, resultVars, histVars>>

\* Mutant: the request stays on offer after it was received (a retry).
HandoffRetry(p, a) ==
    /\ spc[p] = "handoff"
    /\ cpc[a] = "recv"
    /\ sch[p] = cch[a]
    /\ cpc' = [cpc EXCEPT ![a] = "check"]
    /\ creq' = [creq EXCEPT ![a] = p]
    /\ handedTo' = [handedTo EXCEPT ![p] = Append(@, a)]
    /\ UNCHANGED <<coordVars, envVars, ctxDone, scrapeVars,
                   cfqdn, cch, resultVars,
                   received, removals, rremovals, noWaiter, doneAtCall, liveAtReturn>>

\* line 90 with line 111: the send of call p meets the receive of call a on
\* one unbuffered channel.
Handoff(p, a) ==
    /\ spc[p] = "handoff"
    /\ cpc[a] = "recv"
    /\ sch[p] = cch[a]
    /\ spc' = [spc EXCEPT ![p] = "handed"]
    /\ sch' = [sch EXCEPT ![p] = NoChan]
    /\ cpc' = [cpc EXCEPT ![a] = "check"]
    /\ creq' = [creq EXCEPT ![a] = p]
    /\ handedTo' = [handedTo EXCEPT ![p] = Append(@, a)]
    /\ UNCHANGED <<coordVars, envVars, ctxDone, shost, sid, reqHdr, respCh, sres, sgot,
                   cfqdn, cch, resultVars,
                   received, removals, rremovals, noWaiter, doneAtCall, liveAtReturn>>

\* line 93: respCh := c.getResponseChannel(id)
DoScrapeGetResp(p) ==
    /\ spc[p] = "handed"
    /\ respCh' = [respCh EXCEPT ![p] = getResponseChannel(sid[p]).ch]
    /\ responses' = getResponseChannel(sid[p]).map
    /\ spc' = [spc EXCEPT ![p] = "await"]
    /\ UNCHANGED <<idCounter, waiting, known, envVars, ctxDone, shost, sid, reqHdr, sch,
                   sres, sgot, claimVars, resultVars, histVars>>

\* Mutant: the removal is not deferred, so the return on ctx.Done() skips it.
DoScrapeCtxDoneLeak(p) ==
    /\ spc[p] = "await"
    /\ ctxDone[p]
    /\ spc' = [spc EXCEPT ![p] = "done"]
    /\ sres' = [sres EXCEPT ![p] = "CtxErr"]
    /\ respCh' = [respCh EXCEPT ![p] = NoChan]
    /\ UNCHANGED <<coordVars, envVars, ctxDone, shost, sid, reqHdr, sch, sgot,
                   claimVars, resultVars, histVars>>

\* Mutant: the second select has no ctx.Done() case.
DoScrapeCtxDoneMissing(p) ==
    /\ spc[p] = "await"
    /\ FALSE
    /\ UNCHANGED vars

\* lines 97-98 and 94: case <-ctx.Done(): return nil, ctx.Err(), and the deferred
\* c.removeResponseChannel(id) runs as DoScrape returns
DoScrapeCtxDone(p) ==
    /\ spc[p] = "await"
    /\ ctxDone[p]
    /\ spc' = [spc EXCEPT ![p] = "done"]
    /\ sres' = [sres EXCEPT ![p] = "CtxErr"]
    /\ respCh' = [respCh EXCEPT ![p] = NoChan]
    /\ responses' = removeResponseChannel(sid[p])
    /\ removals' = [removals EXCEPT ![p] = @ + 1]
    /\ UNCHANGED <<idCounter, waiting, known, envVars, ctxDone, shost, sid, reqHdr, sch, sgot,
                   claimVars, resultVars, handedTo, received, rremovals, noWaiter, doneAtCall, liveAtReturn>>

\* Mutant: the return with a response skips the removal.
DoScrapeDeferSkip(p) ==
    /\ spc[p] = "cleanup"
    /\ spc' = [spc EXCEPT ![p] = "done"]
    /\ UNCHANGED <<coordVars, envVars, ctxDone, shost, sid, reqHdr, sch,
                   respCh, sres, sgot, claimVars, resultVars, histVars>>

\* lines 100 and 94: return resp, nil, and the deferred
\* c.removeResponseChannel(id) runs as DoScrape returns
DoScrapeDefer(p) ==
    /\ spc[p] = "cleanup"
    /\ responses' = removeResponseChannel(sid[p])
    /\ removals' = [removals EXCEPT ![p] = @ + 1]
    /\ spc' = [spc EXCEPT ![p] = "done"]
    /\ UNCHANGED <<idCounter, waiting, known, envVars, ctxDone, shost, sid, reqHdr, sch,
                   respCh, sres, sgot, claimVars, resultVars,
                   handedTo, received, rremovals, noWaiter, doneAtCall, liveAtReturn>>

\* ------------------------------------------------------------ WaitForScrapeInstruction
\* lines 107-109: c.addKnownClient(fqdn); ch := c.getRequestChannel(fqdn)
WaitBegin(a, f) ==
    /\ cpc[a] = "idle"
    /\ Started(cpc, a)
    /\ FreshOrUsed(f)
    /\ known' = addKnownClient(f)
    /\ contact' = [contact EXCEPT ![f] = now]
    /\ cfqdn' = [cfqdn EXCEPT ![a] = f]
    /\ cch' = [cch EXCEPT ![a] = getRequestChannel(f).ch]
    /\ waiting' = getRequestChannel(f).map
    /\ cpc' = [cpc EXCEPT ![a] = "recv"]
    /\ UNCHANGED <<idCounter, responses, now, agentGone, regVars, lockVars, ctxDone,
                   scrapeVars, creq, resultVars, histVars>>

\* lines 113-114: the request's context has ended; receive again
WaitDiscard(a) ==
    /\ cpc' = [cpc EXCEPT ![a] = "recv"]
    /\ creq' = [creq EXCEPT ![a] = NoCall]
    /\ UNCHANGED <<cch, liveAtReturn>>

\* lines 115-116: return request, nil
WaitReturn(a) ==
    /\ cpc' = [cpc EXCEPT ![a] = "done"]
    /\ cch' = [cch EXCEPT ![a] = NoChan]
    /\ liveAtReturn' = [liveAtReturn EXCEPT ![a] = ~ctxDone[creq[a]]]
    /\ UNCHANGED creq

\* Mutant: the request is returned without looking at its context.
WaitCheckNoCheck(a) ==
    /\ cpc[a] = "check"
    /\ WaitReturn(a)
    /\ UNCHANGED <<coordVars, envVars, ctxDone, scrapeVars, cfqdn, resultVars,
                   handedTo, received, removals, rremovals, noWaiter, doneAtCall>>

\* lines 112-117: the select on request.Context().Done() with a default
WaitCheck(a) ==
    /\ cpc[a] = "check"
    /\ IF ctxDone[creq[a]] THEN WaitDiscard(a) ELSE WaitReturn(a)
    /\ UNCHANGED <<coordVars, envVars, ctxDone, scrapeVars, cfqdn, resultVars,
                   handedTo, received, removals, rremovals, noWaiter, doneAtCall>>

\* ------------------------------------------------------------ ScrapeResult
\* The identifiers an agent has: those of the requests WaitForScrapeInstruction
\* returned, and identifiers this process never issued.
ClaimedIds == {sid[creq[a]] : a \in {b \in Claims : cpc[b] = "done"}}

ResultIds == ClaimedIds \cup {GhostId}

\* The header of a response as the agent sends it
AgentHeader(id, hint) ==
    {<<HId, id>>, <<HOther, "text/plain">>} \cup (IF hint THEN {<<HTimeout, "10">>} ELSE {})

\* A DoScrape call that is blocked on the response channel of id, or about to be
Waiting(id) == \E p \in Scrapes : sid[p] = id /\ spc[p] \in {"handed", "await"}

\* Mutant: the internal headers are left on the response.
ScrapeResultBeginNoStrip(s, id, hint) ==
    /\ rpc[s] = "idle"
    /\ Started(rpc, s)
    /\ rid' = [rid EXCEPT ![s] = HeaderGet(AgentHeader(id, hint), HId)]
    /\ respHdr' = [respHdr EXCEPT ![s] = AgentHeader(id, hint)]
    /\ rch' = [rch EXCEPT ![s] =
                 getResponseChannel(HeaderGet(AgentHeader(id, hint), HId)).ch]
    /\ responses' = getResponseChannel(HeaderGet(AgentHeader(id, hint), HId)).map
    /\ rpc' = [rpc EXCEPT ![s] = "send"]
    /\ noWaiter' = [noWaiter EXCEPT ![s] = ~Waiting(id)]
    /\ UNCHANGED <<idCounter, waiting, known, envVars, ctxDone, scrapeVars, claimVars, rres,
                   handedTo, received, removals, rremovals, doneAtCall,
                   liveAtReturn>>

\* lines 123-130: id := r.Header.Get("Id"); the timeout context; the two
\* Header.Del; entering the select evaluates c.getResponseChannel(id)
ScrapeResultBegin(s, id, hint) ==
    /\ rpc[s] = "idle"
    /\ Started(rpc, s)
    /\ rid' = [rid EXCEPT ![s] = HeaderGet(AgentHeader(id, hint), HId)]
    /\ respHdr' = [respHdr EXCEPT ![s] =
                     HeaderDel(HeaderDel(AgentHeader(id, hint), HId), HTimeout)]
    /\ rch' = [rch EXCEPT ![s] =
                 getResponseChannel(HeaderGet(AgentHeader(id, hint), HId)).ch]
    /\ responses' = getResponseChannel(HeaderGet(AgentHeader(id, hint), HId)).map
    /\ rpc' = [rpc EXCEPT ![s] = "send"]
    /\ noWaiter' = [noWaiter EXCEPT ![s] = ~Waiting(id)]
    /\ UNCHANGED <<idCounter, waiting, known, envVars, ctxDone, scrapeVars, claimVars, rres, handedTo, received, removals, rremovals, doneAtCall,
                   liveAtReturn>>

\* Mutant: the response channel is buffered, so the send completes with no
\* receiver.
DeliverBuffered(s, p) ==
    /\ rpc[s] = "send"
    /\ rpc' = [rpc EXCEPT ![s] = "done"]
    /\ rres' = [rres EXCEPT ![s] = "nil"]
    /\ rch' = [rch EXCEPT ![s] = NoChan]
    /\ UNCHANGED <<coordVars, envVars, ctxDone, scrapeVars, claimVars, rid, respHdr, histVars>>

\* line 130 with line 99: the send of call s meets the receive of call p on
\* one unbuffered channel; s returns nil, p goes on to return resp.
Deliver(s, p) ==
    /\ rpc[s] = "send"
    /\ spc[p] = "await"
    /\ rch[s] = respCh[p]
    /\ rpc' = [rpc EXCEPT ![s] = "done"]
    /\ rres' = [rres EXCEPT ![s] = "nil"]
    /\ rch' = [rch EXCEPT ![s] = NoChan]
    /\ spc' = [spc EXCEPT ![p] = "cleanup"]
    /\ sres' = [sres EXCEPT ![p] = "resp"]
    /\ sgot' = [sgot EXCEPT ![p] = s]
    /\ respCh' = [respCh EXCEPT ![p] = NoChan]
    /\ received' = [received EXCEPT ![p] = Append(@, s)]
    /\ UNCHANGED <<coordVars, envVars, ctxDone, shost, sid, reqHdr, sch, claimVars,
                   rid, respHdr,
                   handedTo, removals, rremovals, noWaiter, doneAtCall, liveAtReturn>>

\* Mutant: the timeout returns without removing the channel.
ScrapeResultTimeoutLeak(s) ==
    /\ rpc[s] = "send"
    /\ rres' = [rres EXCEPT ![s] = "DeadlineExceeded"]
    /\ rch' = [rch EXCEPT ![s] = NoChan]
    /\ rpc' = [rpc EXCEPT ![s] = "done"]
    /\ UNCHANGED <<coordVars, envVars, ctxDone, scrapeVars, claimVars, rid, respHdr, histVars>>

\* lines 132-134: the timeout context of line 125 has ended and the select takes
\* case <-ctx.Done(): c.removeResponseChannel(id); return ctx.Err()
ScrapeResultTimeout(s) ==
    /\ rpc[s] = "send"
    /\ responses' = removeResponseChannel(rid[s])
    /\ rremovals' = [rremovals EXCEPT ![s] = @ + 1]
    /\ rres' = [rres EXCEPT ![s] = "DeadlineExceeded"]
    /\ rch' = [rch EXCEPT ![s] = NoChan]
    /\ rpc' = [rpc EXCEPT ![s] = "done"]
    /\ UNCHANGED <<idCounter, waiting, known, envVars, ctxDone, scrapeVars, claimVars,
                   rid, respHdr,
                   handedTo, received, removals, noWaiter, doneAtCall, liveAtReturn>>

\* ------------------------------------------------------------ specification
\* The steps of the calls in SS (DoScrape), CS (WaitForScrapeInstruction) and
\* RS (ScrapeResult)
NextOver(SS, CS, RS) ==
    \/ \E p \in SS : CtxEnd(p)
    \/ \E p \in SS, t \in Targets : DoScrapeBegin(p, t)
    \/ \E p \in SS : DoScrapeNoMatch(p)
    \/ \E p \in SS, a \in CS : Handoff(p, a)
    \/ \E p \in SS : DoScrapeGetResp(p)
    \/ \E p \in SS : DoScrapeCtxDone(p)
    \/ \E p \in SS : DoScrapeDefer(p)
    \/ \E a \in CS, f \in Targets : WaitBegin(a, f)
    \/ \E a \in CS : WaitCheck(a)
    \/ \E s \in RS, id \in ResultIds, hint \in BOOLEAN : ScrapeResultBegin(s, id, hint)
    \/ \E s \in RS, p \in SS : Deliver(s, p)
    \/ \E s \in RS : ScrapeResultTimeout(s)

Next == NextOver(Scrapes, Claims, Results)

Spec == Init /\ [][Next]_vars

\* The Go scheduler runs every goroutine that can take a step: a select with a
\* ready case proceeds, and a communication both sides wait for happens.  The
\* callers' contexts and the arrival of new calls are under no such obligation.
Fairness(SS, CS, RS) ==
    /\ \A p \in SS : /\ WF_vars(DoScrapeNoMatch(p))
                     /\ WF_vars(DoScrapeGetResp(p))
                     /\ WF_vars(DoScrapeCtxDone(p))
                     /\ WF_vars(DoScrapeDefer(p))
    /\ \A p \in SS, a \in CS : WF_vars(Handoff(p, a))
    /\ \A a \in CS : WF_vars(WaitCheck(a))
    /\ \A s \in RS, p \in SS : WF_vars(Deliver(s, p))
    /\ \A s \in RS : WF_vars(ScrapeResultTimeout(s))

\* The calls of the fair specification: two callers, one agent poll, one result.
FairScrapes == {p \in Scrapes : p <= 2}
FairClaims == {a \in Claims : a <= 1}
FairResults == {s \in Results : s <= 1}

FairNext == NextOver(FairScrapes, FairClaims, FairResults)

FairSpec ==
    Init /\ [][FairNext]_vars /\ Fairness(FairScrapes, FairClaims, FairResults)

\* ------------------------------------------------------------ registry
\* The clock counts minutes.  registrationTimeout is the flag default of 5
\* minutes; gc's ticker has a period of one minute.
registrationTimeout == 5
GcPeriod == 1

\* A minute passes.
Tick ==
    /\ now < MaxTime
    /\ now' = now + 1
    /\ UNCHANGED <<coordVars, contact, agentGone, regVars, lockVars, ctxDone,
                   scrapeVars, claimVars, resultVars, histVars>>

\* lines 150-157: limit := time.Now().Add(-*registrationTimeout); the clients k
\* with limit.Before(t)
KnownClients ==
    LET limit == now - registrationTimeout
    IN  {k \in DOMAIN known : limit < known[k]}

\* A call of KnownClients; alive is the list it returns.
KnownClientsCall ==
    /\ alive' = KnownClients
    /\ UNCHANGED <<coordVars, now, contact, agentGone, lastSweep, sweeps, lockVars,
                   ctxDone, scrapeVars, claimVars, resultVars, histVars>>

\* Mutant: the sweep also deletes a record whose age equals the timeout.
gcEager ==
    LET limit == now - registrationTimeout
        deleted == {k \in DOMAIN known : ~(limit < known[k])}
    IN  /\ now - lastSweep >= GcPeriod
        /\ known' = [k \in DOMAIN known \ deleted |-> known[k]]
        /\ lastSweep' = now
        /\ sweeps' = TRUE
        /\ UNCHANGED <<idCounter, waiting, responses, now, contact, agentGone, alive,
                       lockVars, ctxDone, scrapeVars, claimVars, resultVars, histVars>>

\* lines 162-175: one round of the loop over time.Tick(1 * time.Minute): the
\* records with ts.Before(limit) are deleted
gc ==
    LET limit == now - registrationTimeout
        deleted == {k \in DOMAIN known : known[k] < limit}
    IN  /\ now - lastSweep >= GcPeriod
        /\ known' = [k \in DOMAIN known \ deleted |-> known[k]]
        /\ lastSweep' = now
        /\ sweeps' = TRUE
        /\ UNCHANGED <<idCounter, waiting, responses, now, contact, agentGone, alive,
                       lockVars, ctxDone, scrapeVars, claimVars, resultVars, histVars>>

\* The specification with the clock: two agents poll, one caller submits a
\* request whose context does not end, and no result is submitted, while
\* time passes, KnownClients is called and gc sweeps.
RegScrapes == {p \in Scrapes : p <= 1}
RegClaims == {a \in Claims : a <= 2}

RegNext ==
    \/ \E p \in RegScrapes, t \in Targets : DoScrapeBegin(p, t)
    \/ \E p \in RegScrapes, a \in RegClaims : Handoff(p, a)
    \/ \E p \in RegScrapes : DoScrapeGetResp(p)
    \/ \E a \in RegClaims, f \in Targets : WaitBegin(a, f)
    \/ \E a \in RegClaims : WaitCheck(a)
    \/ Tick
    \/ KnownClientsCall
    \/ gc

RegSpec == Init /\ [][RegNext]_vars

\* ------------------------------------------------------------ lock-level view
\* What each handler does to the mutex and to channels, in program order.  A
\* map operation is Lock(); defer Unlock(); body.  A channel operation blocks
\* until its partner arrives, the context ends or the timeout fires; next is
\* where the handler goes from there (Len + 1: it has returned).
Kinds == {"DoScrape", "WaitForScrapeInstruction", "ScrapeResult", "KnownClients", "gc"}

HandlerOps(k) ==
    CASE k = "DoScrape" ->
            <<[op |-> "getRequestChannel", next |-> {2}],
              [op |-> "send", next |-> {3, 6}],
              [op |-> "getResponseChannel", next |-> {4}],
              [op |-> "recv", next |-> {5}],
              [op |-> "removeResponseChannel", next |-> {6}]>>
      [] k = "WaitForScrapeInstruction" ->
            <<[op |-> "addKnownClient", next |-> {2}],
              [op |-> "getRequestChannel", next |-> {3}],
              [op |-> "recv", next |-> {3, 4}]>>
      [] k = "ScrapeResult" ->
            <<[op |-> "getResponseChannel", next |-> {2}],
              [op |-> "send", next |-> {3, 4}],
              [op |-> "removeResponseChannel", next |-> {4}]>>
      [] k = "KnownClients" ->
            <<[op |-> "KnownClients", next |-> {2}]>>
      [] k = "gc" ->
            <<[op |-> "gc", next |-> {1}]>>

ChanOps == {"send", "recv"}

Running(g) == lkind[g] # "idle" /\ lstep[g] <= Len(HandlerOps(lkind[g]))

CurOp(g) == HandlerOps(lkind[g])[lstep[g]]

AtMapOp(g) == Running(g) /\ CurOp(g).op \notin ChanOps

AtChanOp(g) == Running(g) /\ CurOp(g).op \in ChanOps

CurLock(g) == LockOf(MapOf(CurOp(g).op))

InCrit(g) == AtMapOp(g) /\ mu[CurLock(g)] = g

\* A handler is called (gc: go c.gc() of NewCoordinator).
LockStart(g, k) ==
    /\ lkind[g] = "idle"
    /\ Started(lkind, g)
    /\ lkind' = [lkind EXCEPT ![g] = k]
    /\ lstep' = [lstep EXCEPT ![g] = 1]
    /\ UNCHANGED <<coordVars, now, contact, agentGone, regVars, mu, ctxDone,
                   scrapeVars, claimVars, resultVars, histVars>>

\* c.mu.Lock()
Lock(g) ==
    /\ AtMapOp(g)
    /\ mu[CurLock(g)] = NoCall
    /\ mu' = [mu EXCEPT ![CurLock(g)] = g]
    /\ UNCHANGED <<coordVars, now, contact, agentGone, regVars, lkind, lstep, ctxDone,
                   scrapeVars, claimVars, resultVars, histVars>>

\* Mutant: the mutex is released when the handler returns, not the operation.
UnlockLate(g) ==
    /\ InCrit(g)
    /\ \E n \in CurOp(g).next :
        /\ lstep' = [lstep EXCEPT ![g] = n]
        /\ mu' = IF n > Len(HandlerOps(lkind[g]))
                 THEN [mu EXCEPT ![CurLock(g)] = NoCall]
                 ELSE mu
    /\ UNCHANGED <<coordVars, now, contact, agentGone, regVars, lkind, ctxDone,
                   scrapeVars, claimVars, resultVars, histVars>>

\* The body of the operation, and the deferred c.mu.Unlock() as it returns
Unlock(g) ==
    /\ InCrit(g)
    /\ mu' = [mu EXCEPT ![CurLock(g)] = NoCall]
    /\ \E n \in CurOp(g).next : lstep' = [lstep EXCEPT ![g] = n]
    /\ UNCHANGED <<coordVars, now, contact, agentGone, regVars, lkind, ctxDone,
                   scrapeVars, claimVars, resultVars, histVars>>

\* A send, a receive or a select comes to an end.
ChanOp(g) ==
    /\ AtChanOp(g)
    /\ \E n \in CurOp(g).next : lstep' = [lstep EXCEPT ![g] = n]
    /\ UNCHANGED <<coordVars, now, contact, agentGone, regVars, mu, lkind, ctxDone,
                   scrapeVars, claimVars, resultVars, histVars>>

LockNext ==
    \/ \E g \in Goroutines, k \in Kinds : LockStart(g, k)
    \/ \E g \in Goroutines : Lock(g)
    \/ \E g \in Goroutines : Unlock(g)
    \/ \E g \in Goroutines : ChanOp(g)

LockSpec == Init /\ [][LockNext]_vars

\* ------------------------------------------------------------ agent disconnect
\* The agent that made poll a goes away while the call is in progress.  The
\* handler's request context ends, but WaitForScrapeInstruction(fqdn string) is
\* given no context (line 105; TODO at line 108), so no position or local of the
\* call changes.  agentGone records the DoScrape calls submitted until then.
Disconnect(a) ==
    /\ cpc[a] \in {"recv", "check"}
    /\ agentGone[a] = NotGone
    /\ agentGone' = [agentGone EXCEPT ![a] = {p \in Scrapes : spc[p] # "idle"}]
    /\ UNCHANGED <<coordVars, now, contact, regVars, lockVars, ctxDone, scrapeVars,
                   claimVars, resultVars, histVars>>

\* The calls of the specification with disconnecting agents.
GoneScrapes == {p \in Scrapes : p <= 2}
GoneClaims == {a \in Claims : a <= 1}
GoneResults == {s \in Results : s <= 1}

GoneNext ==
    \/ NextOver(GoneScrapes, GoneClaims, GoneResults)
    \/ \E a \in GoneClaims : Disconnect(a)

GoneSpec == Init /\ [][GoneNext]_vars

\* ============================================================ properties
InSeq(x, q) == \E i \in 1..Len(q) : q[i] = x

\* C1: under any interleaving, every submitted request is received by at most
\* one WaitForScrapeInstruction call, only by a call on the hostname it was
\* submitted to, and the request a call holds or returns is one that DoScrape
\* submitted, tagged with its identifier: no duplication, no invention and no
\* cross-target delivery.
RequestHandoffExact ==
    /\ \A p \in Scrapes :
        /\ Len(handedTo[p]) <= 1
        /\ \A a \in Claims : InSeq(a, handedTo[p]) => cfqdn[a] = shost[p]
    /\ \A a \in Claims :
        cpc[a] \in {"check", "done"} =>
            /\ creq[a] \in Scrapes
            /\ handedTo[creq[a]] = <<a>>
            /\ spc[creq[a]] \notin {"idle", "handoff"}
            /\ shost[creq[a]] = cfqdn[a]
            /\ sid[creq[a]] # NoId
            /\ HeaderGet(reqHdr[creq[a]], HId) = sid[creq[a]]

\* Two polls on different hostnames have each returned the request of their own
\* hostname.
RequestHandoffWitness ==
    \E a, b \in Claims :
        /\ cpc[a] = "done" /\ cpc[b] = "done"
        /\ cfqdn[a] # cfqdn[b]
        /\ creq[a] # creq[b]

\* C2: a result is received only by the DoScrape call that generated its
\* identifier, a call receives at most one result, no result is received
\* twice, and a call receives only after its request was handed to a
\* WaitForScrapeInstruction call.
ResultPairing ==
    /\ \A p \in Scrapes :
        /\ Len(received[p]) <= 1
        /\ \A s \in Results : InSeq(s, received[p]) => rid[s] = sid[p]
        /\ received[p] # <<>> => handedTo[p] # <<>>
        /\ sres[p] = "resp" => /\ sgot[p] \in Results
                               /\ received[p] = <<sgot[p]>>
                               /\ rid[sgot[p]] = sid[p]
        /\ sres[p] # "resp" => received[p] = <<>>
    /\ \A p, q \in Scrapes, s \in Results :
        InSeq(s, received[p]) /\ InSeq(s, received[q]) => p = q

\* Two calls have each received the result sent for their own identifier.
ResultPairingWitness ==
    \E p, q \in Scrapes :
        /\ p # q
        /\ sres[p] = "resp" /\ sres[q] = "resp"
        /\ sgot[p] # sgot[q]

\* The one poll of the fair specification and a caller on its hostname, with no
\* second caller on that hostname
Alone(p, a) ==
    /\ cfqdn[a] = shost[p]
    /\ \A q \in Scrapes : q # p /\ spc[q] # "idle" => shost[q] # shost[p]
    /\ \A b \in Claims : b # a /\ cpc[b] # "idle" => cfqdn[b] # cfqdn[a]

\* C3: when a DoScrape call is sending on a hostname and a
\* WaitForScrapeInstruction call is receiving on the same hostname, the
\* context has not ended and nobody else competes on the hostname, then under
\* fair scheduling the poll returns that request and the caller goes on to wait
\* for the result, unless the context ends or a competitor arrives first.
HandoffCompletes ==
    \A p \in FairScrapes, a \in FairClaims :
        (spc[p] = "handoff" /\ cpc[a] = "recv" /\ ~ctxDone[p] /\ Alone(p, a))
            ~> \/ /\ cpc[a] = "done" /\ creq[a] = p
                  /\ spc[p] \in {"await", "cleanup", "done"}
               \/ ctxDone[p]
               \/ ~Alone(p, a)

\* The poll has returned the request of a caller whose context is live and who
\* is now waiting for the result.
HandoffCompletesWitness ==
    \E p \in FairScrapes, a \in FairClaims :
        /\ cpc[a] = "done" /\ creq[a] = p
        /\ spc[p] = "await"
        /\ ~ctxDone[p]

\* C4: WaitForScrapeInstruction never returns a request whose context has ended
\* at the return; a request whose context has ended is dropped and the call is
\* back at the receive on the channel of its hostname.
NoExpiredWorkReturned ==
    \A a \in Claims :
        /\ cpc[a] = "done" => liveAtReturn[a]
        /\ cpc[a] = "recv" => /\ cfqdn[a] \in DOMAIN waiting
                              /\ cch[a] = waiting[cfqdn[a]]
                              /\ creq[a] = NoCall
        /\ \A p \in Scrapes :
            InSeq(a, handedTo[p]) /\ cpc[a] = "recv" => ctxDone[p]

\* A poll has received a request, dropped it and is receiving again.
NoExpiredWorkWitness ==
    \E a \in Claims, p \in Scrapes : InSeq(a, handedTo[p]) /\ cpc[a] = "recv"

\* C5: a DoScrape call whose request no poll received returns only after its
\* context has ended, and then with NoMatchingAgent; once the context has ended
\* the return is ready; NoMatchingAgent is returned only when the request was
\* handed to nobody, and then no response channel exists for the identifier and
\* the call has removed none.
NoMatchingAgentOnly ==
    \A p \in Scrapes :
        /\ spc[p] = "done" /\ handedTo[p] = <<>> =>
              ctxDone[p] /\ sres[p] = "NoMatchingAgent"
        /\ spc[p] = "handoff" /\ ctxDone[p] => ENABLED DoScrapeNoMatch(p)
        /\ sres[p] = "NoMatchingAgent" =>
              /\ handedTo[p] = <<>>
              /\ received[p] = <<>>
              /\ removals[p] = 0
              /\ sid[p] \notin DOMAIN responses

\* A call whose context ended while it was offering its request has returned
\* NoMatchingAgent.
NoMatchingAgentWitness ==
    \E p \in Scrapes : sres[p] = "NoMatchingAgent" /\ ~doneAtCall[p]

\* C6: a DoScrape call made with a context that has already ended returns
\* NoMatchingAgent or the context's error, its return is ready at both
\* selects whether or not a poll took the request, and once it has returned
\* the response table has no channel for its identifier.
EndedContextReturns ==
    \A p \in Scrapes :
        doneAtCall[p] =>
            /\ spc[p] = "handoff" => ENABLED DoScrapeNoMatch(p)
            /\ spc[p] = "await" => ENABLED DoScrapeCtxDone(p)
            /\ spc[p] # "cleanup"
            /\ spc[p] = "done" => /\ sres[p] \in {"NoMatchingAgent", "CtxErr"}
                                  /\ sid[p] \notin DOMAIN responses

\* A call made with an ended context was taken by a waiting poll all the same
\* and has returned the context's error.
EndedContextWitness ==
    \E p \in Scrapes : doneAtCall[p] /\ spc[p] = "done" /\ sres[p] = "CtxErr"

\* The calls that justify a channel for id in the response table
SlotHolder(id) ==
    \/ \E s \in Results : rpc[s] = "send" /\ rid[s] = id
    \/ \E p \in Scrapes : spc[p] \in {"await", "cleanup"} /\ sid[p] = id

\* C7: a ScrapeResult call for an identifier no DoScrape call is waiting on can
\* always take its timeout, returns the timeout error and never nil, and
\* leaves no channel behind: the table holds a channel for an identifier only
\* while a ScrapeResult call for it is sending or its DoScrape call has not
\* yet returned, also when several ScrapeResult calls share the identifier.
UnclaimedResultTimesOut ==
    /\ \A s \in Results :
        /\ rpc[s] = "send" => ENABLED ScrapeResultTimeout(s)
        /\ rpc[s] = "done" /\ noWaiter[s] =>
              /\ rres[s] = "DeadlineExceeded"
              /\ rremovals[s] = 1
              /\ \A p \in Scrapes : ~InSeq(s, received[p])
    /\ \A id \in DOMAIN responses : SlotHolder(id)

\* Two ScrapeResult calls for one identifier nobody waits on were sending
\* together; one has timed out and removed the channel, the other still sends.
UnclaimedResultWitness ==
    \E s, u \in Results :
        /\ s # u /\ rid[s] = rid[u]
        /\ noWaiter[s] /\ noWaiter[u]
        /\ rpc[s] = "done" /\ rres[s] = "DeadlineExceeded"
        /\ rpc[u] = "send" /\ rch[u] # NoChan
        /\ rid[u] \notin DOMAIN responses

\* C8: a DoScrape call whose request was handed to a poll removes the response
\* channel of its identifier exactly once on every way out, never before it
\* stops waiting, and the removal is ready also when a timed-out ScrapeResult
\* has removed the channel already; a call that was not handed removes nothing.
SlotRemovedOnce ==
    \A p \in Scrapes :
        /\ removals[p] <= 1
        /\ spc[p] = "done" /\ handedTo[p] # <<>> => removals[p] = 1
        /\ spc[p] = "done" /\ handedTo[p] = <<>> => removals[p] = 0
        /\ spc[p] # "done" => removals[p] = 0
        /\ spc[p] = "cleanup" => ENABLED DoScrapeDefer(p)

\* A call that received a result has run its removal after a timed-out
\* ScrapeResult for its identifier had run its own.
SlotRemovedOnceWitness ==
    \E p \in Scrapes, s \in Results :
        /\ spc[p] = "done" /\ sres[p] = "resp" /\ removals[p] = 1
        /\ rid[s] = sid[p] /\ rres[s] = "DeadlineExceeded" /\ rremovals[s] = 1

\* C9: ScrapeResult returns nil exactly when a DoScrape call of that identifier
\* received that very response; when the DoScrape call returned the context's
\* error every finished ScrapeResult for its identifier returned the timeout
\* error; and each side has run its removal: the caller once it stops waiting,
\* the ScrapeResult call when it times out.
RaceHasOneWinner ==
    /\ \A s \in Results :
        /\ rpc[s] = "done" => rres[s] \in {"nil", "DeadlineExceeded"}
        /\ rres[s] = "nil" <=>
              \E p \in Scrapes : sgot[p] = s /\ sres[p] = "resp" /\ sid[p] = rid[s]
        /\ rres[s] = "DeadlineExceeded" => rremovals[s] = 1
        /\ rres[s] # "DeadlineExceeded" => rremovals[s] = 0
    /\ \A p \in Scrapes :
        sres[p] = "CtxErr" =>
            /\ removals[p] = 1
            /\ \A s \in Results : rid[s] = sid[p] /\ rpc[s] = "done" =>
                  rres[s] = "DeadlineExceeded"

\* The caller's wait ended while a ScrapeResult for its identifier was under
\* way: the caller returned the context's error, the ScrapeResult the timeout.
RaceWitness ==
    \E p \in Scrapes, s \in Results :
        /\ sres[p] = "CtxErr" /\ spc[p] = "done"
        /\ rid[s] = sid[p] /\ ~noWaiter[s]
        /\ rres[s] = "DeadlineExceeded"

\* A ScrapeResult call that is the only one so far for its identifier
SoleResult(s) == \A u \in Results : u # s /\ rpc[u] # "idle" => rid[u] # rid[s]

DoScrapeTerminates ==
    /\ [](\A p \in FairScrapes :
            /\ (spc[p] = "handoff" /\ ctxDone[p]) => ENABLED DoScrapeNoMatch(p)
            /\ (spc[p] = "await" /\ ctxDone[p]) => ENABLED DoScrapeCtxDone(p)
            /\ (spc[p] = "done" /\ handedTo[p] # <<>>) => sres[p] \in {"CtxErr", "resp"})
    /\ \A p \in FairScrapes :
            (ctxDone[p] /\ spc[p] \in {"handoff", "handed", "await", "cleanup"})
                ~> (spc[p] = "done")

\* A call whose request was received returned the context's error while no
\* result had been submitted by any agent.
DoScrapeTerminatesWitness ==
    \E p \in FairScrapes :
        /\ spc[p] = "done"
        /\ sres[p] = "CtxErr"
        /\ handedTo[p] # <<>>
        /\ \A s \in Results : rpc[s] = "idle"

\* C12: a WaitForScrapeInstruction call blocked on the request channel stops
\* waiting when its agent disconnects: a call whose agent has disconnected
\* receives no request that was submitted after the disconnect.
ClaimStopsOnDisconnect ==
    \A a \in Claims, p \in Scrapes :
        (agentGone[a] # NotGone /\ InSeq(a, handedTo[p])) => p \in agentGone[a]

\* What a call of removeResponseChannel(id) does to the three maps.
RemovalEffect(id) ==
    /\ DOMAIN responses' = DOMAIN responses \ {id}
    /\ \A j \in DOMAIN responses' : responses'[j] = responses[j]
    /\ waiting' = waiting
    /\ known' = known

\* C13: removeResponseChannel is idempotent: however often it is called for an
\* identifier, with a channel present or not, the call is ready to run, no
\* channel is left for that identifier, removing again changes nothing, and the
\* channels of other identifiers, the request channels and the registry are
\* as before.
RemoveIdempotent ==
    /\ [](/\ \A p \in Scrapes : spc[p] = "cleanup" => ENABLED DoScrapeDefer(p)
          /\ \A s \in Results : rpc[s] = "send" => ENABLED ScrapeResultTimeout(s)
          /\ \A id \in DOMAIN responses \cup {GhostId} :
                LET m == removeResponseChannel(id)
                IN  /\ id \notin DOMAIN m
                    /\ [i \in DOMAIN m \ {id} |-> m[i]] = m)
    /\ [][/\ \A p \in Scrapes : removals'[p] # removals[p] => RemovalEffect(sid[p])
          /\ \A s \in Results : rremovals'[s] # rremovals[s] => RemovalEffect(rid[s])]_vars

\* Two ScrapeResult calls for one identifier have both timed out and each has
\* run its removal, the later one with no channel present; one of them was
\* called while the DoScrape call of that identifier was waiting.
RemoveIdempotentWitness ==
    \E s \in Results, u \in Results :
        /\ s # u
        /\ rid[s] = rid[u]
        /\ noWaiter[s]
        /\ ~noWaiter[u]
        /\ rres[s] = "DeadlineExceeded" /\ rremovals[s] = 1
        /\ rres[u] = "DeadlineExceeded" /\ rremovals[u] = 1
        /\ rid[s] \notin DOMAIN responses

\* C14: WaitForScrapeInstruction records the contact before it blocks, so a
\* hostname is in KnownClients once a poll for it has started and for as long
\* as its last contact is younger than registrationTimeout; once the last
\* contact is older than registrationTimeout KnownClients leaves it out, and
\* after a sweep of gc at such a time its record is gone.
ContactRecorded ==
    /\ \A a \in Claims : cpc[a] # "idle" => contact[cfqdn[a]] # NoTime
    /\ \A f \in Targets :
        contact[f] # NoTime =>
            /\ f \in DOMAIN known => known[f] = contact[f]
            /\ now - contact[f] < registrationTimeout => f \in KnownClients
            /\ now - contact[f] > registrationTimeout => f \notin KnownClients
            /\ (sweeps /\ lastSweep - contact[f] > registrationTimeout)
                   => f \notin DOMAIN known

\* A poll is still blocked on its channel, its contact is older than the
\* timeout, a sweep has run since, and the record is gone.
ContactRecordedWitness ==
    \E a \in Claims :
        /\ cpc[a] = "recv"
        /\ now - contact[cfqdn[a]] > registrationTimeout
        /\ sweeps
        /\ lastSweep - contact[cfqdn[a]] > registrationTimeout
        /\ cfqdn[a] \notin DOMAIN known

\* C15: any two genId calls of the process return different identifiers,
\* however the DoScrape calls that make them interleave, so no two DoScrape
\* calls have the same key in responses or wait on the same response channel,
\* and no call is given the identifier that is never issued.
UniqueIds ==
    \A p \in Scrapes :
        spc[p] # "idle" =>
            /\ sid[p] # GhostId
            /\ HeaderGet(reqHdr[p], HId) = sid[p]
            /\ \A q \in Scrapes \ {p} :
                /\ spc[q] # "idle" => sid[q] # sid[p]
                /\ (spc[p] = "await" /\ spc[q] = "await") => respCh[p] # respCh[q]

\* Two DoScrape calls that started at the same second both wait for a result.
UniqueIdsWitness ==
    \E p \in Scrapes, q \in Scrapes :
        /\ p # q
        /\ spc[p] = "await"
        /\ spc[q] = "await"
        /\ sid[p] \in DOMAIN responses
        /\ sid[q] \in DOMAIN responses
        /\ shost[p] = shost[q]

\* No goroutine holds a mutex while it is blocked on a channel, the holder of
\* a mutex can release it without any other goroutine, and a free mutex can be
\* taken whatever the blocked goroutines do.
NoLockWhileBlocked ==
    /\ \A g \in Goroutines : AtChanOp(g) => \A l \in Locks : mu[l] # g
    /\ \A l \in Locks : mu[l] # NoCall => (InCrit(mu[l]) /\ ENABLED Unlock(mu[l]))
    /\ \A g \in Goroutines :
        (AtMapOp(g) /\ mu[CurLock(g)] = NoCall) => ENABLED Lock(g)

RequestSlotStable ==
    /\ [](/\ \A t \in DOMAIN waiting, u \in DOMAIN waiting :
                t # u => waiting[t] # waiting[u]
          /\ \A t \in DOMAIN waiting :
                /\ getRequestChannel(t).ch = waiting[t]
                /\ getRequestChannel(t).map = waiting
          /\ \A p \in Scrapes :
                spc[p] = "handoff" =>
                    (shost[p] \in DOMAIN waiting /\ sch[p] = waiting[shost[p]])
          /\ \A a \in Claims :
                cpc[a] \in {"recv", "check"} =>
                    (cfqdn[a] \in DOMAIN waiting /\ cch[a] = waiting[cfqdn[a]]))
    /\ [][\A t \in DOMAIN waiting :
            t \in DOMAIN waiting' /\ waiting'[t] = waiting[t]]_vars

\* A poll has received a request on its hostname's channel and returned, and
\* another DoScrape call for the hostname sends on that same channel.
RequestSlotStableWitness ==
    \E p \in Scrapes, a \in Claims :
        /\ cpc[a] = "done"
        /\ spc[p] = "handoff"
        /\ shost[p] = cfqdn[a]
        /\ handedTo[p] = <<>>
        /\ sch[p] = waiting[cfqdn[a]]
        /\ \E q \in Scrapes : q # p /\ InSeq(a, handedTo[q])

\* How far a DoScrape call has come.
Rank(pc) ==
    CASE pc = "idle" -> 0
      [] pc = "handoff" -> 1
      [] pc = "handed" -> 2
      [] pc = "await" -> 3
      [] pc = "cleanup" -> 4
      [] pc = "done" -> 5

\* C18: a request only moves forward, submitted, then claimed, then completed
\* or expired, and is never retried: it is sent on its hostname's channel once,
\* a request a poll discarded as expired is not offered again, a result is
\* received only by a call whose request was claimed and that still waits,
\* and a call that has returned, with an error or a response, receives nothing
\* afterwards.
ForwardOnly ==
    [][/\ \A p \in Scrapes :
            /\ Rank(spc'[p]) >= Rank(spc[p])
            /\ Len(handedTo'[p]) <= 1
            /\ handedTo[p] # <<>> => handedTo'[p] = handedTo[p]
            /\ handedTo'[p] # handedTo[p] => (spc[p] = "handoff" /\ spc'[p] = "handed")
            /\ received'[p] # received[p] =>
                  (handedTo[p] # <<>> /\ spc[p] = "await" /\ received[p] = <<>>)
            /\ spc[p] = "done" =>
                  (sres'[p] = sres[p] /\ sgot'[p] = sgot[p] /\ received'[p] = received[p])
            /\ sres[p] \in {"NoMatchingAgent", "CtxErr"} => received'[p] = <<>>
       /\ \A a \in Claims :
            (cpc[a] = "check" /\ cpc'[a] = "recv") =>
                (spc'[creq[a]] # "handoff" /\ handedTo'[creq[a]] = <<a>>)]_vars

\* A poll received a request, discarded it as expired, received a second one
\* and returned it; the call of the first has returned the context's error.
ForwardOnlyWitness ==
    \E p \in Scrapes, q \in Scrapes, a \in Claims :
        /\ p # q
        /\ handedTo[p] = <<a>>
        /\ handedTo[q] = <<a>>
        /\ cpc[a] = "done"
        /\ creq[a] = q
        /\ spc[p] = "done"
        /\ sres[p] = "CtxErr"
        /\ received[p] = <<>>

\* C19: a KnownClients call leaves the registry and both tables as they are;
\* a sweep of gc deletes only records older than registrationTimeout, never
\* one KnownClients reports alive at that instant, changes no record it keeps,
\* and leaves the request and response tables alone; a record whose age is
\* exactly registrationTimeout is neither reported alive nor deleted.
RegistryFrame ==
    /\ [](\A k \in DOMAIN known :
            now - known[k] = registrationTimeout => k \notin KnownClients)
    /\ [][/\ KnownClientsCall =>
                (known' = known /\ waiting' = waiting /\ responses' = responses)
          /\ gc =>
                /\ DOMAIN known' \subseteq DOMAIN known
                /\ \A k \in DOMAIN known :
                    /\ k \notin DOMAIN known' => now - known[k] > registrationTimeout
                    /\ k \in DOMAIN known' => known'[k] = known[k]
                    /\ k \in KnownClients => k \in DOMAIN known'
                    /\ now - known[k] = registrationTimeout => k \in DOMAIN known'
                /\ waiting' = waiting
                /\ responses' = responses]_vars

\* A sweep has just run while a request waited for its result: it deleted one
\* record and kept one whose age is exactly registrationTimeout, which
\* KnownClients at that instant does not report.
RegistryFrameWitness ==
    \E k \in Targets, j \in Targets :
        /\ sweeps
        /\ lastSweep = now
        /\ k \in DOMAIN known
        /\ now - known[k] = registrationTimeout
        /\ k \notin alive
        /\ alive = KnownClients
        /\ contact[j] # NoTime
        /\ j \notin DOMAIN known
        /\ DOMAIN responses # {}

\* C20: while a DoScrape call is blocked waiting for the result of its
\* identifier, the response table maps that identifier to the very channel
\* the call waits on: a ScrapeResult call that times out never removes the
\* channel from under a caller that still waits, so every ScrapeResult call
\* for the identifier started while the caller waits sends on the caller's
\* channel.
WaitedSlotInTable ==
    /\ \A p \in Scrapes :
        spc[p] = "await" =>
            (sid[p] \in DOMAIN responses /\ responses[sid[p]] = respCh[p])
    /\ \A s \in Results, p \in Scrapes :
        (rpc[s] = "send" /\ spc[p] = "await" /\ rid[s] = sid[p] /\ ~noWaiter[s])
            => rch[s] = respCh[p]

====
